---- MODULE Spec2Model ----
(***************************************************************************)
(* MiniTwit (src/minitwit.py): the three tables of the sqlite store, the   *)
(* signed-cookie session of each browser, and one action per route.        *)
(*                                                                         *)
(* A table is the sequence of its rows in rowid order.  user_id and        *)
(* message_id are "integer primary key autoincrement" and no row of these  *)
(* tables is ever deleted, so a row's id is its index in the sequence.     *)
(* resp is the response to the request handled last, with the request's    *)
(* own inputs (req) and the user before_request resolved (viewer).         *)
(***************************************************************************)
EXTENDS Integers, Sequences, FiniteSets

VARIABLES user, follower, message, session, resp, pc, form, lock

vars == <<user, follower, message, session, resp, pc, form, lock>>

(* ------------------------------ bounds -------------------------------- *)

\* rows of the user table
MaxUsers == 2
\* rows of the follower table
MaxFollowRows == 2
\* rows of the message table, small specification
MaxMsgs == 2
\* largest ?p= page number requested, paging specification
MaxPage == 2
\* rows of the follower table, message specifications
MsgFollowRows == 1
\* rows of the message table, paging specification
MaxPageMsgs == 35
\* paging specification: the first MaxFree messages are posted by any user at
\* any time in 1..MaxFree and may be flagged; the later ones are posted by
\* the first user, each at a later second than every message before it
MaxFree == 1

(* ------------------------- program constants -------------------------- *)

PER_PAGE == 30

\* Python's None, for an absent id (ids start at 1)
None == 0

Clients == {"c1", "c2"}

Usernames == {"a", "b"}

(* ------------------------------ helpers ------------------------------- *)

Min(a, b) == IF a < b THEN a ELSE b

\* werkzeug's salted hash: only the password that made it checks against it
generate_password_hash(password) == <<"pbkdf2:sha256", password>>

check_password_hash(pw_hash, password) == pw_hash[2] = password

\* select user_id from user where username = ?  .fetchone(): the first row
get_user_id(username) ==
    IF \E i \in DOMAIN user : user[i].username = username
    THEN CHOOSE i \in DOMAIN user :
            /\ user[i].username = username
            /\ \A j \in DOMAIN user : user[j].username = username => i <= j
    ELSE None

\* before_request: g.user is the row of session["user_id"], None without one
g_user(c) ==
    IF session[c] # None /\ session[c] \in DOMAIN user THEN session[c] ELSE None

\* select 1 from follower where who_id = ? and whom_id = ?  is not None
followed_by(who_id, whom_id) ==
    \E k \in DOMAIN follower :
        follower[k].who_id = who_id /\ follower[k].whom_id = whom_id

(* ------------------------- the timeline queries ----------------------- *)

\* the row of "select message.*, user.*" for message m
Row(m) ==
    [message_id |-> m, author_id |-> message[m].author_id,
     text |-> message[m].text, pub_date |-> message[m].pub_date,
     flagged |-> message[m].flagged,
     username |-> user[message[m].author_id].username]

\* message.flagged = 0 and message.author_id = user.user_id
Joined_NoFlagFilter == {m \in DOMAIN message : message[m].author_id \in DOMAIN user}

Joined ==
    {m \in DOMAIN message :
        message[m].flagged = 0 /\ message[m].author_id \in DOMAIN user}

\* ... and (user.user_id = ? or user.user_id in
\*          (select whom_id from follower where who_id = ?))
HomeSet_All(uid) == Joined

HomeSet(uid) ==
    {m \in Joined :
        \/ message[m].author_id = uid
        \/ message[m].author_id \in
              {follower[k].whom_id :
                  k \in {j \in DOMAIN follower : follower[j].who_id = uid}}}

PublicSet == Joined

\* ... and user.user_id = ?
ProfileSet(uid) == {m \in Joined : message[m].author_id = uid}

RECURSIVE Perms(_)
Perms(S) ==
    IF S = {} THEN {<<>>}
    ELSE UNION {{<<x>> \o p : p \in Perms(S \ {x})} : x \in S}

MaxPubDate(S) ==
    IF S = {} THEN 0
    ELSE CHOOSE t \in {message[m].pub_date : m \in S} :
            \A m \in S : message[m].pub_date <= t

\* order by message.pub_date desc: the rows of one pub_date come in an order
\* sqlite does not promise, so every order of them is a possible result
RECURSIVE OrderDesc(_, _)
OrderDesc(S, t) ==
    IF S = {} THEN {<<>>}
    ELSE LET grp == {m \in S : message[m].pub_date = t}
         IN  IF grp = {} THEN OrderDesc(S, t - 1)
             ELSE {p \o r : p \in Perms(grp), r \in OrderDesc(S \ grp, t - 1)}

OrderBy(S) == OrderDesc(S, MaxPubDate(S))

\* limit ? offset ?
LimitOffset_NoOffset(s, limit, offset) == SubSeq(s, 1, Min(Len(s), limit))

LimitOffset(s, limit, offset) ==
    SubSeq(s, offset + 1, Min(Len(s), offset + limit))

\* query_db on a timeline query: the possible lists of rows
Query(S, page) ==
    {[i \in DOMAIN q |-> Row(q[i])] :
        q \in {LimitOffset(s, PER_PAGE, page * PER_PAGE) : s \in OrderBy(S)}}

(* ------------------------------ requests ------------------------------ *)

\* a request's inputs (form fields, query arguments, the clock); an email is
\* the sequence of its characters
NoReq ==
    [method |-> "GET", username |-> "", email |-> <<>>, password |-> "",
     password2 |-> "", text |-> "", page |-> 0, time |-> 0]

Response(op, c, req, status, location, error, messages, followed) ==
    [op |-> op, client |-> c, viewer |-> g_user(c), req |-> req,
     status |-> status, location |-> location, error |-> error,
     messages |-> messages, followed |-> followed]

Redirect(op, c, req, location) ==
    Response(op, c, req, 302, location, "", <<>>, FALSE)

Abort(op, c, req, status) == Response(op, c, req, status, "", "", <<>>, FALSE)

Render(op, c, req, error, messages, followed) ==
    Response(op, c, req, 200, "", error, messages, followed)

Init ==
    /\ user = <<>>
    /\ follower = <<>>
    /\ message = <<>>
    /\ session = [c \in Clients |-> None]
    /\ resp = Abort("none", "c1", NoReq, 0)
    /\ pc = [c \in Clients |-> "idle"]
    /\ form = [c \in Clients |-> NoReq]
    /\ lock = ""

conc == <<pc, form, lock>>

(* ------------------------------- routes ------------------------------- *)

timeline_anonymous_Unauthorized(c, req) == Abort("timeline", c, req, 401)

\* if not g.user: return redirect(url_for("public_timeline"))
timeline_anonymous(c, req) == Redirect("timeline", c, req, "public_timeline")

\* @app.route("/")
timeline(c, page) ==
    LET req == [NoReq EXCEPT !.page = page] IN
    /\ IF g_user(c) = None
       THEN resp' = timeline_anonymous(c, req)
       ELSE \E rows \in Query(HomeSet(session[c]), page) :
                resp' = Render("timeline", c, req, "", rows, FALSE)
    /\ UNCHANGED <<user, follower, message, session, conc>>

\* @app.route("/public")
public_timeline(c, page) ==
    LET req == [NoReq EXCEPT !.page = page] IN
    /\ \E rows \in Query(PublicSet, page) :
            resp' = Render("public_timeline", c, req, "", rows, FALSE)
    /\ UNCHANGED <<user, follower, message, session, conc>>

\* @app.route("/<username>")
user_timeline(c, username, page) ==
    LET req == [NoReq EXCEPT !.username = username, !.page = page]
        profile_user == get_user_id(username)
    IN
    /\ IF profile_user = None
       THEN resp' = Abort("user_timeline", c, req, 404)
       ELSE \E rows \in Query(ProfileSet(profile_user), page) :
                resp' = Render("user_timeline", c, req, "", rows,
                               g_user(c) # None
                                 /\ followed_by(session[c], profile_user))
    /\ UNCHANGED <<user, follower, message, session, conc>>

\* insert into follower (who_id, whom_id) values (?, ?)
InsertFollow(who_id, whom_id) ==
    Append(follower, [who_id |-> who_id, whom_id |-> whom_id])

IsOther(row, who_id, whom_id) ==
    ~(row.who_id = who_id /\ row.whom_id = whom_id)

DeleteFollow_First(who_id, whom_id) ==
    IF ~followed_by(who_id, whom_id) THEN follower
    ELSE LET k == CHOOSE i \in DOMAIN follower :
                    /\ ~IsOther(follower[i], who_id, whom_id)
                    /\ \A j \in 1..(i - 1) : IsOther(follower[j], who_id, whom_id)
         IN  SubSeq(follower, 1, k - 1) \o SubSeq(follower, k + 1, Len(follower))

\* delete from follower where who_id=? and whom_id=?
DeleteFollow(who_id, whom_id) ==
    LET keep(row) == IsOther(row, who_id, whom_id)
    IN  SelectSeq(follower, keep)

follow_abort_LookupFirst(c, username) ==
    IF get_user_id(username) = None THEN 404
    ELSE IF g_user(c) = None THEN 401
    ELSE 0

\* if not g.user: abort(401); if whom_id is None: abort(404).  0: no abort
follow_abort(c, username) ==
    IF g_user(c) = None THEN 401
    ELSE IF get_user_id(username) = None THEN 404
    ELSE 0

\* @app.route("/<username>/follow")
follow_user(c, username) ==
    LET req == [NoReq EXCEPT !.username = username] IN
    /\ IF follow_abort(c, username) # 0
       THEN /\ resp' = Abort("follow_user", c, req, follow_abort(c, username))
            /\ UNCHANGED follower
       ELSE /\ follower' = InsertFollow(session[c], get_user_id(username))
            /\ resp' = Redirect("follow_user", c, req, "user_timeline")
    /\ UNCHANGED <<user, message, session, conc>>

\* the same two checks, in unfollow_user
unfollow_abort(c, username) ==
    IF g_user(c) = None THEN 401
    ELSE IF get_user_id(username) = None THEN 404
    ELSE 0

\* @app.route("/<username>/unfollow")
unfollow_user(c, username) ==
    LET req == [NoReq EXCEPT !.username = username] IN
    /\ IF unfollow_abort(c, username) # 0
       THEN /\ resp' = Abort("unfollow_user", c, req, unfollow_abort(c, username))
            /\ UNCHANGED follower
       ELSE /\ follower' = DeleteFollow(session[c], get_user_id(username))
            /\ resp' = Redirect("unfollow_user", c, req, "user_timeline")
    /\ UNCHANGED <<user, message, session, conc>>

\* insert into message (author_id, text, pub_date, flagged) values (?, ?, ?, 0)
InsertMessage_Flagged(author_id, text, time) ==
    Append(message, [author_id |-> author_id, text |-> text,
                     pub_date |-> time, flagged |-> 1])

InsertMessage(author_id, text, time) ==
    Append(message, [author_id |-> author_id, text |-> text,
                     pub_date |-> time, flagged |-> 0])

\* @app.route("/add_message", methods=["POST"]); time is int(time.time())
add_message(c, text, time) ==
    LET req == [NoReq EXCEPT !.method = "POST", !.text = text, !.time = time] IN
    /\ IF session[c] = None
       THEN /\ resp' = Abort("add_message", c, req, 401)
            /\ UNCHANGED message
       ELSE IF text # ""
       THEN /\ message' = InsertMessage(session[c], text, time)
            /\ resp' = Redirect("add_message", c, req, "timeline")
       ELSE /\ resp' = Redirect("add_message", c, req, "timeline")
            /\ UNCHANGED message
    /\ UNCHANGED <<user, follower, session, conc>>

\* @app.route("/login", methods=["GET", "POST"])
login(c, method, username, password) ==
    LET req == [NoReq EXCEPT !.method = method, !.username = username,
                             !.password = password]
        uid == get_user_id(username)
    IN
    /\ IF g_user(c) # None
       THEN /\ resp' = Redirect("login", c, req, "timeline")
            /\ UNCHANGED session
       ELSE IF method # "POST"
       THEN /\ resp' = Render("login", c, req, "", <<>>, FALSE)
            /\ UNCHANGED session
       ELSE IF uid = None
       THEN /\ resp' = Render("login", c, req, "Invalid username", <<>>, FALSE)
            /\ UNCHANGED session
       ELSE IF ~check_password_hash(user[uid].pw_hash, password)
       THEN /\ resp' = Render("login", c, req, "Invalid password", <<>>, FALSE)
            /\ UNCHANGED session
       ELSE /\ session' = [session EXCEPT ![c] = uid]
            /\ resp' = Redirect("login", c, req, "timeline")
    /\ UNCHANGED <<user, follower, message, conc>>

\* the validation chain of register, up to the username lookup: the error, or ""
FormError(f) ==
    IF f.username = "" THEN "You have to enter a username"
    ELSE IF f.email = <<>> \/ "@" \notin {f.email[i] : i \in DOMAIN f.email}
         THEN "You have to enter a valid email address"
    ELSE IF f.password = "" THEN "You have to enter a password"
    ELSE IF f.password # f.password2 THEN "The two passwords do not match"
    ELSE ""

\* insert into user (username, email, pw_hash) values (?, ?, ?)
InsertUser(f) ==
    Append(user, [username |-> f.username, email |-> f.email,
                  pw_hash |-> generate_password_hash(f.password)])

RegisterForm(method, username, email, password, password2) ==
    [NoReq EXCEPT !.method = method, !.username = username, !.email = email,
                  !.password = password, !.password2 = password2]

Taken_Never(username) == FALSE

\* get_user_id(request.form["username"]) is not None
Taken(username) == get_user_id(username) # None

\* @app.route("/register", methods=["GET", "POST"]), one request at a time
register(c, req) ==
    /\ IF g_user(c) # None
       THEN /\ resp' = Redirect("register", c, req, "timeline")
            /\ UNCHANGED user
       ELSE IF req.method # "POST"
       THEN /\ resp' = Render("register", c, req, "", <<>>, FALSE)
            /\ UNCHANGED user
       ELSE IF FormError(req) # ""
       THEN /\ resp' = Render("register", c, req, FormError(req), <<>>, FALSE)
            /\ UNCHANGED user
       ELSE IF Taken(req.username)
       THEN /\ resp' = Render("register", c, req,
                              "The username is already taken", <<>>, FALSE)
            /\ UNCHANGED user
       ELSE /\ Len(user) < MaxUsers
            /\ user' = InsertUser(req)
            /\ resp' = Redirect("register", c, req, "login")
    /\ UNCHANGED <<follower, message, session, conc>>

\* @app.route("/logout")
logout(c) ==
    /\ session' = [session EXCEPT ![c] = None]
    /\ resp' = Redirect("logout", c, NoReq, "public_timeline")
    /\ UNCHANGED <<user, follower, message, conc>>

\* Moderation, outside the application: a message's flagged marker is set
flag_message(m) ==
    /\ m \in DOMAIN message
    /\ message[m].flagged = 0
    /\ message' = [message EXCEPT ![m].flagged = 1]
    /\ resp' = Abort("none", "c1", NoReq, 0)
    /\ UNCHANGED <<user, follower, session, conc>>

(* --------------- register, step by step on its own connection -------- *)

\* before_request and the checks of register, up to the username lookup, which
\* reads what is committed at that moment
register_check(c, req) ==
    /\ pc[c] = "idle"
    /\ IF g_user(c) # None
       THEN /\ resp' = Redirect("register", c, req, "timeline")
            /\ UNCHANGED <<pc, form>>
       ELSE IF req.method # "POST"
       THEN /\ resp' = Render("register", c, req, "", <<>>, FALSE)
            /\ UNCHANGED <<pc, form>>
       ELSE IF FormError(req) # ""
       THEN /\ resp' = Render("register", c, req, FormError(req), <<>>, FALSE)
            /\ UNCHANGED <<pc, form>>
       ELSE IF Taken(req.username)
       THEN /\ resp' = Render("register", c, req,
                              "The username is already taken", <<>>, FALSE)
            /\ UNCHANGED <<pc, form>>
       ELSE /\ pc' = [pc EXCEPT ![c] = "insert"]
            /\ form' = [form EXCEPT ![c] = req]
            /\ UNCHANGED resp
    /\ UNCHANGED <<user, follower, message, session, lock>>

\* g.db.execute(insert ...): the connection's transaction begins and takes
\* sqlite's write lock; the row is not committed yet
register_insert(c) ==
    /\ pc[c] = "insert"
    /\ lock = ""
    /\ lock' = c
    /\ pc' = [pc EXCEPT ![c] = "commit"]
    /\ UNCHANGED <<user, follower, message, session, resp, form>>

\* the write lock is another connection's until the busy timeout runs out:
\* sqlite3.OperationalError, a server error
register_locked(c) ==
    /\ pc[c] = "insert"
    /\ lock \notin {"", c}
    /\ pc' = [pc EXCEPT ![c] = "idle"]
    /\ form' = [form EXCEPT ![c] = NoReq]
    /\ resp' = Abort("register", c, form[c], 500)
    /\ UNCHANGED <<user, follower, message, session, lock>>

\* g.db.commit(), then the redirect to login
register_commit(c) ==
    /\ pc[c] = "commit"
    /\ lock = c
    /\ user' = InsertUser(form[c])
    /\ lock' = ""
    /\ pc' = [pc EXCEPT ![c] = "idle"]
    /\ form' = [form EXCEPT ![c] = NoReq]
    /\ resp' = Redirect("register", c, form[c], "login")
    /\ UNCHANGED <<follower, message, session>>

(* ------------------------------ inputs -------------------------------- *)

ValidForm(u) == RegisterForm("POST", u, <<"u", "@", "x">>, "pw1", "pw1")

\* a valid form per username, and one form per way of being refused
Forms ==
    {ValidForm(u) : u \in Usernames} \cup
    {RegisterForm("GET", "", <<>>, "", ""),
     RegisterForm("POST", "", <<"u", "@", "x">>, "pw1", "pw1"),
     RegisterForm("POST", "a", <<"u", "x">>, "pw1", "pw1"),
     RegisterForm("POST", "a", <<>>, "pw1", "pw1"),
     RegisterForm("POST", "a", <<"u", "@", "x">>, "", "pw1"),
     RegisterForm("POST", "a", <<"u", "@", "x">>, "pw1", "pw2")}

Logins ==
    {<<"POST", u, p>> : u \in Usernames \cup {"nobody"}, p \in {"pw1", "pw2"}}
        \cup {<<"GET", "", "">>}

\* one browser: it logs in and out as any of the users
Browser == "c1"

UserRoom(req) == Len(user) < MaxUsers \/ Taken(req.username)

\* the usernames of the users other than the one logged in
Others == {u \in Usernames : get_user_id(u) \notin {None, session[Browser]}}

FollowRoom(max, u) == Len(follower) < max \/ get_user_id(u) = None

(* --------- accounts and follows: requests handled one by one ---------- *)

Next ==
    \/ \E f \in Forms : UserRoom(f) /\ register(Browser, f)
    \/ \E l \in Logins : login(Browser, l[1], l[2], l[3])
    \/ logout(Browser)
    \/ \E u \in Usernames \cup {"nobody"} :
            FollowRoom(MaxFollowRows, u) /\ follow_user(Browser, u)
    \/ \E u \in Usernames \cup {"nobody"} : unfollow_user(Browser, u)
    \/ \E u \in Usernames \cup {"nobody"} : user_timeline(Browser, u, 0)

Spec == Init /\ [][Next]_vars

(* ------- messages and the three timelines, a few messages ------------- *)

\* the seconds int(time.time()) gives: posts come in either order of their
\* pub_dates, or within one second
Times == {1, 2}

NextMsg ==
    \/ \E u \in Usernames : UserRoom(ValidForm(u)) /\ register(Browser, ValidForm(u))
    \/ \E u \in Usernames : login(Browser, "POST", u, "pw1")
    \/ logout(Browser)
    \/ \E u \in Others : FollowRoom(MsgFollowRows, u) /\ follow_user(Browser, u)
    \/ \E u \in Others : unfollow_user(Browser, u)
    \/ \E text \in {"", "hello"}, t \in Times :
            /\ Len(message) < MaxMsgs
            /\ add_message(Browser, text, t)
    \/ \E m \in 1..MaxMsgs : flag_message(m)
    \/ \E p \in {0, 1} : timeline(Browser, p)
    \/ public_timeline(Browser, 0)
    \/ \E u \in Usernames \cup {"nobody"} : user_timeline(Browser, u, 0)

SpecMsg == Init /\ [][NextMsg]_vars

(* ------------- concurrent registrations, one per browser -------------- *)

NextConc ==
    \/ \E c \in Clients, f \in Forms : UserRoom(f) /\ register_check(c, f)
    \/ \E c \in Clients : register_insert(c)
    \/ \E c \in Clients : register_locked(c)
    \/ \E c \in Clients : register_commit(c)
    \/ \E c \in Clients, u \in Usernames :
            pc[c] = "idle" /\ login(c, "POST", u, "pw1")
    \/ \E c \in Clients : pc[c] = "idle" /\ logout(c)

SpecConc == Init /\ [][NextConc]_vars

(* ---------- the timelines over more messages than one page ----------- *)

PageTimes ==
    IF Len(message) < MaxFree THEN 1..MaxFree
    ELSE IF session[Browser] = 1 THEN {MaxPubDate(DOMAIN message) + 1}
    ELSE {}

NextPage ==
    \/ \E u \in Usernames : UserRoom(ValidForm(u)) /\ register(Browser, ValidForm(u))
    \/ \E u \in Usernames : login(Browser, "POST", u, "pw1")
    \/ logout(Browser)
    \/ \E u \in Others : FollowRoom(MsgFollowRows, u) /\ follow_user(Browser, u)
    \/ \E u \in Others : unfollow_user(Browser, u)
    \/ \E t \in PageTimes :
            /\ Len(message) < MaxPageMsgs
            /\ add_message(Browser, "hello", t)
    \/ \E m \in 1..MaxFree : flag_message(m)
    \/ \E p \in 0..MaxPage : timeline(Browser, p)
    \/ \E p \in 0..MaxPage : public_timeline(Browser, p)

SpecPage == Init /\ [][NextPage]_vars

(* ======================= the claims, under Spec ======================= *)

\* the follow or unfollow request whose response resp' is: who asked, of whom
Asker == resp'.viewer
Asked == get_user_id(resp'.req.username)

\* C2: the follower table holds at most one row per ordered pair
\* (follower id, followed id), whatever follow and unfollow requests were made.
C2_OneEdgePerPair ==
    \A i, j \in DOMAIN follower : follower[i] = follower[j] => i = j

\* C3: after A's follow of B the followed flag computed for A on B's profile is
\* true, also on the profile view the follow redirects to; after A's unfollow
\* of B it is false, however many rows (A,B) there were; an unfollow with no
\* row (A,B) answers with the usual redirect and leaves the table as it was.
C3_FollowUnfollowFlag ==
    [][/\ \A a, b \in DOMAIN user :
            (Asker = a /\ Asked = b) =>
                /\ resp'.op = "follow_user" =>
                        resp'.status = 302 /\ followed_by(a, b)'
                /\ resp'.op = "unfollow_user" =>
                        /\ resp'.status = 302 /\ ~followed_by(a, b)'
                        /\ ~followed_by(a, b) => follower' = follower
       /\ (/\ resp.op = "follow_user" /\ resp.status = 302
           /\ resp'.op = "user_timeline" /\ resp'.client = resp.client
           /\ resp'.req.username = resp.req.username)
            => resp'.status = 200 /\ resp'.followed
       /\ (/\ resp.op = "unfollow_user" /\ resp.status = 302
           /\ resp'.op = "user_timeline" /\ resp'.client = resp.client
           /\ resp'.req.username = resp.req.username)
            => resp'.status = 200 /\ ~resp'.followed]_vars

\* C3 witness: A's profile view of B shows followed, with A having followed B
\* more than once
C3_Witness ==
    /\ resp.op = "user_timeline" /\ resp.status = 200 /\ resp.followed
    /\ \E i, j \in DOMAIN follower :
          /\ i # j
          /\ follower[i] = follower[j]
          /\ follower[i].who_id = resp.viewer
          /\ follower[i].whom_id = get_user_id(resp.req.username)

\* a register request with valid fields is answered by resp'
IsValidRegister ==
    resp'.op = "register" /\ resp'.req.method = "POST" /\ FormError(resp'.req) = ""

RegisterOutcome ==
    IF get_user_id(resp'.req.username) = None
    THEN /\ Len(user') = Len(user) + 1
         /\ SubSeq(user', 1, Len(user)) = user
         /\ user'[Len(user')].username = resp'.req.username
         /\ \A u \in Usernames :
                u = resp'.req.username => get_user_id(u)' = Len(user')
         /\ resp'.status = 302 /\ resp'.location = "login"
    ELSE /\ resp'.error = "The username is already taken"
         /\ user' = user

IdsStable ==
    \A u \in Usernames :
        get_user_id(u) # None => get_user_id(u)' = get_user_id(u)

\* C4, as claimed: a registration with valid fields and a username not yet
\* present creates exactly one user row, every later get_user_id(username)
\* returns that id, and a second registration of the username fails with
\* 'The username is already taken' and leaves the user table unchanged.
C4_AsClaimed == [][IdsStable /\ (IsValidRegister => RegisterOutcome)]_vars

\* C4, amended: the same, for a registration sent by a browser that is not
\* logged in; sent by a logged-in browser it is answered with a redirect to the
\* timeline and the user table is unchanged.
C4_Amended ==
    [][/\ IdsStable
       /\ (IsValidRegister /\ resp'.viewer = None) => RegisterOutcome
       /\ (IsValidRegister /\ resp'.viewer # None) =>
             /\ user' = user
             /\ resp'.status = 302 /\ resp'.location = "timeline"]_vars

\* C4 witness: a second registration of a username was refused
C4_Witness ==
    /\ resp.op = "register" /\ resp.viewer = None
    /\ resp.error = "The username is already taken"
    /\ get_user_id(resp.req.username) # None

\* C5: a follow or unfollow without an authenticated viewer is answered 401,
\* also for an unknown username; by an authenticated viewer for an unknown
\* username it is answered 404; in both cases the follower table is unchanged.
C5_FollowErrors ==
    [][resp'.op \in {"follow_user", "unfollow_user"} =>
         /\ g_user(resp'.client) = None =>
                resp'.status = 401 /\ follower' = follower
         /\ (g_user(resp'.client) # None /\ Asked = None) =>
                resp'.status = 404 /\ follower' = follower]_vars

\* C5 witness: with rows in the follower table, a browser without a session
\* asked to follow a username nobody has
C5_Witness ==
    /\ resp.op = "follow_user" /\ resp.status = 401
    /\ session[resp.client] = None
    /\ get_user_id(resp.req.username) = None
    /\ follower # <<>>

(* ====================== the claims, under SpecMsg ====================== *)

\* C6: add_message by a logged-in user with empty text creates no message row
\* and answers with the redirect to the home timeline a successful post gets,
\* with no error; with text it appends exactly one row, authored by the
\* session's user and not flagged, and leaves the rows there were unchanged.
C6_AddMessage ==
    [][(resp'.op = "add_message" /\ session[resp'.client] # None) =>
         /\ resp'.status = 302 /\ resp'.location = "timeline" /\ resp'.error = ""
         /\ IF resp'.req.text = ""
            THEN message' = message
            ELSE /\ Len(message') = Len(message) + 1
                 /\ SubSeq(message', 1, Len(message)) = message
                 /\ message'[Len(message')] =
                        [author_id |-> session[resp'.client],
                         text |-> resp'.req.text,
                         pub_date |-> resp'.req.time,
                         flagged |-> 0]]_vars

\* C6 witness: a logged-in user posted an empty text while messages exist
C6_Witness ==
    /\ resp.op = "add_message" /\ resp.req.text = ""
    /\ session[resp.client] # None
    /\ resp.status = 302
    /\ message # <<>>

TimelineOps == {"timeline", "public_timeline", "user_timeline"}

\* C8: no timeline view (home, public, profile), for any viewer and page,
\* returns a message whose flagged marker is 1.
C8_NoFlaggedReturned ==
    resp.op \in TimelineOps =>
        \A i \in DOMAIN resp.messages :
            /\ resp.messages[i].flagged = 0
            /\ message[resp.messages[i].message_id].flagged = 0

\* C8 witness: a view returned messages of an author who also has a flagged one
C8_Witness ==
    /\ resp.op \in TimelineOps /\ resp.status = 200
    /\ \E i \in DOMAIN resp.messages, m \in DOMAIN message :
          /\ message[m].flagged = 1
          /\ message[m].author_id = resp.messages[i].author_id

\* C9: the home view asked for without a session is answered with a redirect
\* to the public view, not an error status; it returns no messages and
\* changes nothing stored.
C9_AnonymousHome ==
    [][(resp'.op = "timeline" /\ session[resp'.client] = None) =>
         /\ resp'.status = 302 /\ resp'.location = "public_timeline"
         /\ resp'.messages = <<>>
         /\ UNCHANGED <<user, follower, message, session>>]_vars

\* C9 witness: the home view was asked for without a session, with unflagged
\* messages stored
C9_Witness ==
    /\ resp.op = "timeline" /\ session[resp.client] = None
    /\ \E m \in DOMAIN message : message[m].flagged = 0

(* ===================== the claims, under SpecPage ===================== *)

\* the unflagged messages whose author is V or a user V follows
Expected(V) ==
    {m \in DOMAIN message :
        /\ message[m].flagged = 0
        /\ \/ message[m].author_id = V
           \/ \E k \in DOMAIN follower :
                follower[k] = [who_id |-> V, whom_id |-> message[m].author_id]}

Returned == {resp.messages[i].message_id : i \in DOMAIN resp.messages}

Descending ==
    \A i, j \in DOMAIN resp.messages :
        i < j => resp.messages[i].pub_date >= resp.messages[j].pub_date

RowsAreStored ==
    \A i \in DOMAIN resp.messages :
        LET r == resp.messages[i] IN
        /\ r.message_id \in DOMAIN message
        /\ r.author_id = message[r.message_id].author_id
        /\ r.pub_date = message[r.message_id].pub_date
        /\ r.username = user[r.author_id].username

\* C1: page 0 of the home timeline of an authenticated viewer V returns
\* exactly the unflagged messages whose author is V or a user V follows, the
\* PER_PAGE most recent of them when there are more, each once, ordered by
\* descending pub_date; it returns no message of a user V neither is nor follows.
C1_HomeTimeline ==
    (resp.op = "timeline" /\ resp.viewer # None /\ resp.req.page = 0) =>
        /\ resp.status = 200
        /\ RowsAreStored
        /\ Cardinality(Returned) = Len(resp.messages)
        /\ Returned \subseteq Expected(resp.viewer)
        /\ Len(resp.messages) = Min(Cardinality(Expected(resp.viewer)), PER_PAGE)
        /\ Descending
        /\ \A m \in Expected(resp.viewer) \ Returned, r \in Returned :
                message[m].pub_date <= message[r].pub_date
        /\ \A i \in DOMAIN resp.messages :
                \/ resp.messages[i].author_id = resp.viewer
                \/ followed_by(resp.viewer, resp.messages[i].author_id)

\* C1 witness: the viewer's home timeline has more than one page of messages
\* and a full page was returned, while an unflagged message of a user the
\* viewer does not follow is stored
C1_Witness ==
    /\ resp.op = "timeline" /\ resp.viewer # None /\ resp.req.page = 0
    /\ Cardinality(Expected(resp.viewer)) > PER_PAGE
    /\ Len(resp.messages) = PER_PAGE
    /\ \E m \in DOMAIN message :
          message[m].flagged = 0 /\ m \notin Expected(resp.viewer)

Public == {m \in DOMAIN message : message[m].flagged = 0}

DistinctTimes ==
    \A m, k \in Public : message[m].pub_date = message[k].pub_date => m = k

\* how many unflagged messages are more recent than m
Rank(m) == Cardinality({k \in Public : message[k].pub_date > message[m].pub_date})

\* C7: with distinct timestamps, page p of the public timeline returns the
\* messages ranked p*30 to p*30+29 by descending pub_date: each unflagged
\* message is on the page its rank divided by 30 names and no other, so pages
\* are disjoint and cover all; 35 messages give 30 on page 0 and the 5 oldest
\* on page 1; a page past the end is empty.
C7_PublicPaging ==
    (resp.op = "public_timeline" /\ DistinctTimes) =>
        LET p == resp.req.page
            n == Cardinality(Public)
        IN
        /\ resp.status = 200
        /\ RowsAreStored
        /\ \A i \in DOMAIN resp.messages :
                /\ resp.messages[i].message_id \in Public
                /\ Rank(resp.messages[i].message_id) = p * 30 + i - 1
        /\ \A m \in Public : m \in Returned <=> Rank(m) \div 30 = p
        /\ Len(resp.messages) =
                IF n <= p * 30 THEN 0 ELSE Min(30, n - p * 30)
        /\ (n = 35 /\ p = 0) => Len(resp.messages) = 30
        /\ (n = 35 /\ p = 1) =>
                /\ Len(resp.messages) = 5
                /\ \A m \in Returned, k \in Public \ Returned :
                      message[m].pub_date < message[k].pub_date
        /\ p * 30 >= n => resp.messages = <<>>

\* C7 witness: with 35 public messages, page 1 returned the 5 left
C7_Witness ==
    /\ resp.op = "public_timeline" /\ DistinctTimes
    /\ Cardinality(Public) = 35
    /\ resp.req.page = 1
    /\ Len(resp.messages) = 5

(* ===================== the claims, under SpecConc ===================== *)

\* C10: with two register requests for one username interleaved in any order,
\* the user table never holds two rows of the same username.
C10_UsernamesUnique ==
    \A i, j \in DOMAIN user : user[i].username = user[j].username => i = j

====
